---- MODULE Spec2Model ----
(***************************************************************************)
(* xyplot (src/src/main.rs): save_image_plot composes images into a grid   *)
(* with optional per-image, row and column labels; draw_text blends glyph  *)
(* coverage into the canvas; mod numeric holds the pixel conversions.      *)
(*                                                                         *)
(* u32 quantities that can leave the range of a 31-bit integer (rows, the  *)
(* canvas height, the arguments of the conversions) are kept as three      *)
(* base-2^16 limbs <<carry, middle, low>>: a u32 has carry 0, and the      *)
(* exact result of a u32 operation has a non-zero carry exactly when the   *)
(* operation overflows.  Quantities the bounds keep small are integers.    *)
(*                                                                         *)
(* Integer overflow panics in a build with overflow checks and wraps in a  *)
(* build without; overflow_checks says which build runs.  Glyph outlines   *)
(* and advances come from the font through ab_glyph, outside this          *)
(* repository: a draw_text call is recorded with the arguments             *)
(* save_image_plot computes for it, and the per-pixel body of its closure  *)
(* is draw_pixel.  The canvas holds the pixels the image copies wrote,     *)
(* each named by its source <<image, x, y>>; every other pixel is white.   *)
(***************************************************************************)
EXTENDS Integers, Sequences, FiniteSets, TLC

\* ---------------------------------------------------------------- bounds
MaxImages == 3
MaxDim == 2
MaxRows == 2
MaxLabels == 3
MaxDelta == 2

\* ------------------------------------------------------ program constants
top_padding == 50
label_height == 30
left_padding_configured == 40
row_label_x == 5
Limb == 2 ^ 16
HalfLimb == 2 ^ 15
I32_MAX == 2147483647
U8_MAX == 255

\* ---------------------------------------------------- machine arithmetic
\* A number as <<carry, middle, low>>, worth (carry * 2^16 + middle) * 2^16 + low.
Carry(b) == b[1]
Mid(b) == b[2]
Low(b) == b[3]

\* A small natural (below 2^31) as limbs.
ToBig(k) == <<0, (k \div Limb) % Limb, k % Limb>>

\* The exact product of a number and a natural below 2^15.
BigMulSmall(b, k) ==
  LET p0 == Low(b) * k
      p1 == Mid(b) * k + (p0 \div Limb)
  IN  <<Carry(b) * k + (p1 \div Limb), p1 % Limb, p0 % Limb>>

\* The exact sum of a number and a natural below 2^31.
BigAddSmall(b, k) ==
  LET s0 == Low(b) + (k % Limb)
      s1 == Mid(b) + (k \div Limb) + (s0 \div Limb)
  IN  <<Carry(b) + (s1 \div Limb), s1 % Limb, s0 % Limb>>

FitsU32(b) == Carry(b) = 0

\* What a release build keeps of an overflowing u32 result.
WrapU32(b) == <<0, Mid(b), Low(b)>>

BigLess(a, b) ==
  \/ Carry(a) < Carry(b)
  \/ Carry(a) = Carry(b) /\ Mid(a) < Mid(b)
  \/ Carry(a) = Carry(b) /\ Mid(a) = Mid(b) /\ Low(a) < Low(b)

BigIsZero(b) == b = <<0, 0, 0>>

\* A u32 below 2^31 as an integer.
BigToInt(b) == Mid(b) * Limb + Low(b)

I32_MIN == -I32_MAX - 1
U32_MAX_BIG == <<0, Limb - 1, Limb - 1>>

\* `x as u32` for an i32: the two's complement bit pattern.
CastI32ToU32(v) ==
  IF v >= 0 THEN ToBig(v)
  ELSE LET m == -(v + 1)
       IN  <<0, (Limb - 1) - (m \div Limb), (Limb - 1) - (m % Limb)>>

\* `x as i32` for a u32: the two's complement bit pattern.
CastU32ToI32(b) ==
  IF Mid(b) >= HalfLimb THEN (Mid(b) - Limb) * Limb + Low(b)
  ELSE Mid(b) * Limb + Low(b)

Max(a, b) == IF a >= b THEN a ELSE b

\* numeric::i32_to_u32 with the clamp to 0 left out.
i32_to_u32_noclamp(x) == CastI32ToU32(x)

\* numeric::i32_to_u32
i32_to_u32(x) == CastI32ToU32(Max(x, 0))

\* numeric::u32_to_i32 with the clamp to i32::MAX left out.
u32_to_i32_noclamp(x) == CastU32ToI32(x)

\* numeric::u32_to_i32
u32_to_i32(x) ==
  IF BigLess(CastI32ToU32(I32_MAX), x) THEN I32_MAX ELSE CastU32ToI32(x)

\* numeric::f32_to_u8 on a float [nan, h]: NaN, or the value h / 2 (half units);
\* f32::round rounds halves away from zero.
f32_to_u8(c) ==
  IF c.nan THEN 0
  ELSE IF c.h >= 2 * U8_MAX THEN U8_MAX
  ELSE IF c.h <= 0 THEN 0
  ELSE (c.h + 1) \div 2

\* usize / u32 helpers of the standard library
saturating_sub(a, b) == IF a >= b THEN a - b ELSE 0

\* u32::div_ceil(n, rows) for a small n and rows # 0 (core: d = n / rows,
\* r = n % rows, d + 1 when r > 0).
div_ceil_always_up(n, rows) ==
  IF Mid(rows) > 0 THEN 1 ELSE (n \div Low(rows)) + 1

div_ceil(n, rows) ==
  IF Mid(rows) > 0
    THEN (IF n > 0 THEN 1 ELSE 0)
    ELSE LET d == n \div Low(rows)
             r == n % Low(rows)
         IN  IF r > 0 THEN d + 1 ELSE d

\* ------------------------------------------------------------------ state
VARIABLES
  args,             \* Args: images, labels, rows, row_labels, column_labels
  overflow_checks,  \* the build: TRUE panics on integer overflow, FALSE wraps
  pc,               \* position in save_image_plot, or its outcome
  why,              \* the error or panic message
  cols,             \* let cols
  lay,              \* image_width, image_height, left_padding, has_labels, row_height
  canvas,           \* the RgbImage: dimensions and the pixels images were copied to
  idx,              \* the index of the image loop
  events,           \* the opens, font load, draw_text calls and copies, in program order
  opens,            \* calls of image::open so far
  saves,            \* calls of canvas.save so far
  ovf,              \* some u32 computation has left the u32 range
  num               \* the argument and result of a function of mod numeric / draw_text

vars == <<args, overflow_checks, pc, why, cols, lay, canvas, idx, events,
          opens, saves, ovf, num>>

Dims == [w : 1..MaxDim, h : 1..MaxDim]

\* 2^31 rows: the smallest row count whose product with a 2-pixel row leaves u32.
BigRows == <<0, HalfLimb, 0>>

RowsValues == {ToBig(r) : r \in 0..MaxRows} \cup {BigRows}

\* Image files: the first gives the reference size; at most one other differs.
ImageLists ==
  {<<>>} \cup
  UNION {{[k \in 1..n |-> IF k = odd THEN d2 ELSE d1] :
            d1 \in Dims, d2 \in Dims, odd \in 2..(n + 1)} : n \in 1..MaxImages}

LabelLists == {[k \in 1..n |-> "L"] : n \in 0..MaxLabels}

\* Row labels: all empty strings, or the last one non-empty.
RowLabelLists ==
  {[k \in 1..n |-> IF k = n THEN s ELSE ""] : n \in 0..MaxRows + 1, s \in {"", "R"}}

NoLayout ==
  [image_width |-> 0, image_height |-> 0, left_padding |-> 0,
   has_labels |-> FALSE, row_height |-> 0]

NoCanvas == [allocated |-> FALSE, width |-> ToBig(0), height |-> ToBig(0), px |-> {}]

NoNum == [op |-> "none"]

Init ==
  /\ args \in [images : ImageLists, labels : LabelLists, rows : RowsValues,
               row_labels : RowLabelLists, column_labels : LabelLists]
  /\ overflow_checks \in BOOLEAN
  /\ pc = "validate"
  /\ why = ""
  /\ cols = 0
  /\ lay = NoLayout
  /\ canvas = NoCanvas
  /\ idx = 0
  /\ events = <<>>
  /\ opens = 0
  /\ saves = 0
  /\ ovf = FALSE
  /\ num = NoNum

\* ------------------------------------------------------------- validation
labels_mismatch(labels, n) == labels # <<>> /\ Len(labels) # n

row_labels_mismatch(row_labels, rows) ==
  row_labels # <<>> /\ ToBig(Len(row_labels)) # rows

column_labels_unchecked(column_labels, c) == FALSE

column_labels_mismatch(column_labels, c) ==
  column_labels # <<>> /\ Len(column_labels) # c

\* Lines 206-221: the label checks and cols.  rows = 0 panics in div_ceil.
Validate ==
  /\ pc = "validate"
  /\ LET n == Len(args.images)
     IN  IF labels_mismatch(args.labels, n)
           THEN /\ pc' = "err"
                /\ why' = "Number of labels should match the number of images"
                /\ cols' = cols
         ELSE IF row_labels_mismatch(args.row_labels, args.rows)
           THEN /\ pc' = "err"
                /\ why' = "Number of row labels should match the number of rows"
                /\ cols' = cols
         ELSE IF BigIsZero(args.rows)
           THEN /\ pc' = "panic"
                /\ why' = "attempt to divide by zero"
                /\ cols' = cols
         ELSE IF column_labels_mismatch(args.column_labels, div_ceil(n, args.rows))
           THEN /\ pc' = "err"
                /\ why' = "Number of column labels should match the number of columns"
                /\ cols' = div_ceil(n, args.rows)
         ELSE /\ pc' = "open_first"
              /\ why' = why
              /\ cols' = div_ceil(n, args.rows)
  /\ UNCHANGED <<args, overflow_checks, lay, canvas, idx, events, opens, saves, ovf, num>>

\* A call of image::open on images[i] and whether it returned an image.
open_event(i, ok) == [kind |-> "open", i |-> i, ok |-> ok]

\* A failed image::open that is ignored instead of returned.
open_failed_ignored(ok) == FALSE

\* The `?` after image::open(..).with_context(..), lines 225 and 303.
open_failed(ok) == ~ok

\* Lines 223-227: image::open(&images[0]); indexing an empty Vec panics.
OpenFirst(ok) ==
  /\ pc = "open_first"
  /\ IF Len(args.images) = 0
       THEN /\ pc' = "panic"
            /\ why' = "index out of bounds"
            /\ UNCHANGED <<lay, opens, events>>
     ELSE IF open_failed(ok)
       THEN /\ pc' = "err"
            /\ why' = "Failed to open first image"
            /\ opens' = opens + 1
            /\ events' = events \o <<open_event(0, ok)>>
            /\ lay' = lay
     ELSE /\ pc' = "layout"
          /\ why' = why
          /\ opens' = opens + 1
          /\ events' = events \o <<open_event(0, ok)>>
          /\ lay' = [lay EXCEPT !.image_width = args.images[1].w,
                                !.image_height = args.images[1].h]
  /\ UNCHANGED <<args, overflow_checks, cols, canvas, idx, saves, ovf, num>>

\* ----------------------------------------------------------------- layout
left_padding_of(row_labels) ==
  IF \E k \in 1..Len(row_labels) : row_labels[k] # ""
    THEN left_padding_configured ELSE 0

has_labels_of(a) ==
  a.labels # <<>> \/ a.row_labels # <<>> \/ a.column_labels # <<>>

\* The exact values of lines 240-242, before the result is cut to u32:
\* row_height * rows, then + top band; image_width * cols, then + left_padding.
height_product(row_height, rows) == BigMulSmall(rows, row_height)

height_sum(row_height, rows, band) ==
  BigAddSmall(WrapU32(height_product(row_height, rows)), band)

width_product(image_width, c) == BigMulSmall(ToBig(image_width), c)

width_sum(image_width, c, left_padding) ==
  BigAddSmall(WrapU32(width_product(image_width, c)), left_padding)

\* Lines 229-249: the padding, the canvas dimensions and the white canvas.
\* An overflowing product or sum panics with overflow checks and wraps without.
Layout ==
  /\ pc = "layout"
  /\ LET lp == left_padding_of(args.row_labels)
         hl == has_labels_of(args)
         band == IF hl THEN top_padding ELSE 0
         rh == lay.image_height + band
         overflow ==
           \/ ~FitsU32(height_product(rh, args.rows))
           \/ ~FitsU32(height_sum(rh, args.rows, band))
           \/ ~FitsU32(width_product(lay.image_width, cols))
           \/ ~FitsU32(width_sum(lay.image_width, cols, lp))
     IN  /\ lay' = [lay EXCEPT !.left_padding = lp, !.has_labels = hl,
                               !.row_height = rh]
         /\ ovf' = (ovf \/ overflow)
         /\ IF overflow /\ overflow_checks
              THEN /\ pc' = "panic"
                   /\ why' = "attempt to multiply with overflow"
                   /\ canvas' = canvas
              ELSE /\ pc' = "load_font"
                   /\ why' = why
                   /\ canvas' =
                        [allocated |-> TRUE,
                         width |-> WrapU32(width_sum(lay.image_width, cols, lp)),
                         height |-> WrapU32(height_sum(rh, args.rows, band)),
                         px |-> {}]
  /\ UNCHANGED <<args, overflow_checks, cols, idx, events, opens, saves, num>>

\* Lines 251-255: FontRef::try_from_slice on the embedded font.
LoadFont(ok) ==
  /\ pc = "load_font"
  /\ IF ok THEN pc' = "column_labels" /\ why' = why
           ELSE pc' = "err" /\ why' = "Failed to load font"
  /\ events' = events \o <<[kind |-> "load_font", ok |-> ok]>>
  /\ UNCHANGED <<args, overflow_checks, cols, lay, canvas, idx, opens,
                 saves, ovf, num>>

\* The draw_text call of column label i (0-based), lines 258-268.
column_label_event(i) ==
  [kind |-> "column_label", i |-> i,
   x |-> u32_to_i32(ToBig(i * lay.image_width + lay.left_padding
                          + (lay.image_width \div 2))),
   y |-> u32_to_i32(ToBig(label_height)) \div 2]

\* Lines 257-269: one draw_text per column label.
DrawColumnLabels ==
  /\ pc = "column_labels"
  /\ events' = events \o [k \in 1..Len(args.column_labels) |-> column_label_event(k - 1)]
  /\ pc' = "place"
  /\ idx' = 0
  /\ UNCHANGED <<args, overflow_checks, why, cols, lay, canvas, opens, saves, ovf, num>>

\* ------------------------------------------------------------- image loop
row_of(i, c) == i \div c
col_of(i, c) == i % c

x_start_of(i) == col_of(i, cols) * lay.image_width + lay.left_padding

y_start_of(i) == row_of(i, cols) * lay.row_height + top_padding

\* Lines 281-286: the per-image label, above the image.
label_events(i) ==
  IF i < Len(args.labels)
    THEN <<[kind |-> "label", i |-> i,
            x |-> u32_to_i32(ToBig(x_start_of(i) + (lay.image_width \div 2))),
            y |-> u32_to_i32(ToBig(saturating_sub(y_start_of(i), label_height)))]>>
    ELSE <<>>

\* Lines 288-299: the row label, drawn in the pass of every image of the row.
row_label_events(i) ==
  IF row_of(i, cols) < Len(args.row_labels)
    THEN <<[kind |-> "row_label", i |-> row_of(i, cols),
            x |-> row_label_x,
            y |-> u32_to_i32(ToBig(y_start_of(i) + (lay.image_height \div 2)))]>>
    ELSE <<>>

\* Lines 307-311: the source pixels of image i that pass the bounds test.
copied(i) ==
  {s \in (0..(args.images[i + 1].w - 1)) \X (0..(args.images[i + 1].h - 1)) :
     /\ BigLess(ToBig(x_start_of(i) + s[1]), canvas.width)
     /\ BigLess(ToBig(y_start_of(i) + s[2]), canvas.height)}

target(i, s) == <<x_start_of(i) + s[1], y_start_of(i) + s[2]>>

put_pixels(px, i) ==
  LET wrote == {target(i, s) : s \in copied(i)}
  IN  {p \in px : p.at \notin wrote}
        \cup {[at |-> target(i, s), src |-> <<i, s[1], s[2]>>] : s \in copied(i)}

\* Lines 272-312, one pass of the loop: the labels of image idx, its open and
\* its copy.  The positions stay below 2^31 under the bounds of this model.
PlaceImage(ok) ==
  /\ pc = "place"
  /\ idx < Len(args.images)
  /\ opens' = opens + 1
  /\ IF open_failed(ok)
       THEN /\ pc' = "err"
            /\ why' = "Failed to open image"
            /\ events' = events \o label_events(idx) \o row_label_events(idx)
                           \o <<open_event(idx, ok)>>
            /\ UNCHANGED <<canvas, idx>>
       ELSE /\ events' = events \o label_events(idx) \o row_label_events(idx)
                           \o <<open_event(idx, ok)>>
                           \o <<[kind |-> "copy", i |-> idx,
                                 row |-> row_of(idx, cols), col |-> col_of(idx, cols),
                                 x |-> x_start_of(idx), y |-> y_start_of(idx),
                                 wrote |-> {target(idx, s) : s \in copied(idx)}]>>
            /\ canvas' = [canvas EXCEPT !.px = put_pixels(canvas.px, idx)]
            /\ idx' = idx + 1
            /\ pc' = IF idx + 1 = Len(args.images) THEN "save" ELSE "place"
            /\ why' = why
  /\ UNCHANGED <<args, overflow_checks, cols, lay, saves, ovf, num>>

\* Lines 314-320: canvas.save(&args.output).
Save(ok) ==
  /\ pc = "save"
  /\ saves' = saves + 1
  /\ IF ok THEN pc' = "ok" /\ why' = why
           ELSE pc' = "err" /\ why' = "Failed to save output image"
  /\ UNCHANGED <<args, overflow_checks, cols, lay, canvas, idx, events, opens,
                 ovf, num>>

Next ==
  \/ Validate
  \/ \E ok \in BOOLEAN : OpenFirst(ok)
  \/ Layout
  \/ \E ok \in BOOLEAN : LoadFont(ok)
  \/ DrawColumnLabels
  \/ \E ok \in BOOLEAN : PlaceImage(ok)
  \/ \E ok \in BOOLEAN : Save(ok)

Spec == Init /\ [][Next]_vars

\* ------------------------------------------- mod numeric and the blend alone
I32Samples ==
  UNION {{I32_MIN + k, -k, k, I32_MAX - k} : k \in 0..MaxDelta}

U32Samples ==
  UNION {{ToBig(k), ToBig(I32_MAX - k), BigAddSmall(ToBig(I32_MAX), k + 1),
          <<0, Limb - 1, (Limb - 1) - k>>} : k \in 0..MaxDelta}

\* coverage * 255.0 in half units (h = 2 * value), or NaN.
CoverageSamples ==
  {[nan |-> FALSE, h |-> v] : v \in (-MaxDelta)..(2 * U8_MAX + MaxDelta)}
    \cup {[nan |-> TRUE, h |-> 0]}

ColorSamples == {<<0, 0, 0>>, <<U8_MAX, U8_MAX, U8_MAX>>, <<1, 2, U8_MAX>>}

PixelSamples == {<<U8_MAX, U8_MAX, U8_MAX>>, <<0, 0, 0>>, <<10, 200, U8_MAX>>}

NumericInputs ==
  {[op |-> "i32_to_u32", x |-> v, done |-> FALSE] : v \in I32Samples}
    \cup {[op |-> "u32_to_i32", u |-> v, done |-> FALSE] : v \in U32Samples}
    \cup {[op |-> "draw_pixel", x |-> px, y |-> 0, width |-> 1, height |-> 1,
           coverage |-> c, color |-> col, dst |-> d, done |-> FALSE] :
            px \in -1..1, c \in CoverageSamples, col \in ColorSamples,
            d \in PixelSamples}

NumericInit ==
  /\ num \in NumericInputs
  /\ overflow_checks \in BOOLEAN
  /\ args = [images |-> <<>>, labels |-> <<>>, rows |-> ToBig(1),
             row_labels |-> <<>>, column_labels |-> <<>>]
  /\ pc = "numeric"
  /\ why = ""
  /\ cols = 0
  /\ lay = NoLayout
  /\ canvas = NoCanvas
  /\ idx = 0
  /\ events = <<>>
  /\ opens = 0
  /\ saves = 0
  /\ ovf = FALSE

Apply_i32_to_u32 ==
  /\ num.op = "i32_to_u32" /\ ~num.done
  /\ num' = [op |-> num.op, x |-> num.x, done |-> TRUE, out |-> i32_to_u32(num.x)]
  /\ UNCHANGED <<args, overflow_checks, pc, why, cols, lay, canvas, idx, events,
                 opens, saves, ovf>>

\* u32_to_i32, and i32_to_u32 of its result.
Apply_u32_to_i32 ==
  /\ num.op = "u32_to_i32" /\ ~num.done
  /\ num' = [op |-> num.op, u |-> num.u, done |-> TRUE,
             out |-> u32_to_i32(num.u), back |-> i32_to_u32(u32_to_i32(num.u))]
  /\ UNCHANGED <<args, overflow_checks, pc, why, cols, lay, canvas, idx, events,
                 opens, saves, ovf>>

\* One channel of lines 187-191 in u8: (255 - coverage) + coverage * color / 255.
\* overflow: the product or the sum leaves u8; value: what a wrapping build stores.
blend_channel(coverage, c) ==
  LET product == coverage * c
      quotient == (product % (U8_MAX + 1)) \div U8_MAX
      sum == (U8_MAX - coverage) + quotient
  IN  [overflow |-> product > U8_MAX \/ sum > U8_MAX,
       value |-> sum % (U8_MAX + 1)]

\* Lines 181-192: the body of the closure outlined.draw is given, for the pixel
\* at (x, y) holding dst.
draw_pixel(x, y, width, height, coverage, color, dst, checks) ==
  IF x >= 0 /\ y >= 0 /\ x < width /\ y < height
    THEN LET cov == f32_to_u8(coverage)
             ch == [k \in 1..3 |-> blend_channel(cov, color[k])]
             overflow == \E k \in 1..3 : ch[k].overflow
         IN  IF overflow /\ checks
               THEN [panic |-> TRUE, overflow |-> TRUE, written |-> FALSE, pixel |-> dst]
               ELSE [panic |-> FALSE, overflow |-> overflow, written |-> TRUE,
                     pixel |-> <<ch[1].value, ch[2].value, ch[3].value>>]
    ELSE [panic |-> FALSE, overflow |-> FALSE, written |-> FALSE, pixel |-> dst]

DrawPixel ==
  /\ num.op = "draw_pixel" /\ ~num.done
  /\ num' = [num EXCEPT !.done = TRUE] @@
            [out |-> draw_pixel(num.x, num.y, num.width, num.height, num.coverage,
                                num.color, num.dst, overflow_checks)]
  /\ UNCHANGED <<args, overflow_checks, pc, why, cols, lay, canvas, idx, events,
                 opens, saves, ovf>>

NumericNext == Apply_i32_to_u32 \/ Apply_u32_to_i32 \/ DrawPixel

SpecNumeric == NumericInit /\ [][NumericNext]_vars

\* ================================================================= claims
NumImages == Len(args.images)

Copies == {k \in 1..Len(events) : events[k].kind = "copy"}

Opens == {k \in 1..Len(events) : events[k].kind = "open"}

ValidationMessages ==
  {"Number of labels should match the number of images",
   "Number of row labels should match the number of rows",
   "Number of column labels should match the number of columns"}

\* save_image_plot has passed line 217 (cols holds its value).
ColsComputed ==
  /\ pc \notin {"validate", "numeric"}
  /\ ~(pc = "err" /\ why \in ValidationMessages)
  /\ ~(pc = "panic" /\ why = "attempt to divide by zero")

\* c = ceil(n / rows) for rows >= 1, by the defining inequalities
\* rows * (c - 1) < n <= rows * c.
IsCeilDiv(c, n, rows) ==
  /\ ~BigLess(BigMulSmall(rows, c), ToBig(n))
  /\ (c = 0 \/ BigLess(BigMulSmall(rows, c - 1), ToBig(n)))

\* C1: for n >= 1 images and rows >= 1, cols = ceil(n / rows); every image the
\* loop has placed sits in cell (row, col) with row * cols + col = i, row < rows
\* and col < cols; no two images share a cell; a completed loop placed all n.
C1_GridPlacement ==
  (ColsComputed /\ NumImages >= 1 /\ ~BigIsZero(args.rows)) =>
    /\ cols >= 1
    /\ IsCeilDiv(cols, NumImages, args.rows)
    /\ \A k \in Copies :
         /\ events[k].row * cols + events[k].col = events[k].i
         /\ events[k].col >= 0 /\ events[k].col < cols
         /\ events[k].row >= 0 /\ BigLess(ToBig(events[k].row), args.rows)
    /\ \A k, m \in Copies :
         (events[k].row = events[m].row /\ events[k].col = events[m].col) => k = m
    /\ {events[k].i : k \in Copies} = 0..(idx - 1)
    /\ (pc \in {"save", "ok"} => idx = NumImages)

\* Three images in two rows: two columns, the last row partially filled.
C1_Witness ==
  /\ pc = "ok" /\ NumImages = 3 /\ args.rows = ToBig(2) /\ cols = 2
  /\ \E k \in Copies : events[k].i = 2 /\ events[k].row = 1 /\ events[k].col = 0

LabelCountMismatch ==
  \/ args.labels # <<>> /\ Len(args.labels) # NumImages
  \/ args.row_labels # <<>> /\ ToBig(Len(args.row_labels)) # args.rows
  \/ /\ ~BigIsZero(args.rows)
     /\ args.column_labels # <<>>
     /\ ~IsCeilDiv(Len(args.column_labels), NumImages, args.rows)

\* C2: a non-empty label list whose length differs from the expected count
\* (labels vs images, row_labels vs rows, column_labels vs cols = ceil(n/rows),
\* rows >= 1) ends the call with an error: no image is ever opened, no canvas
\* allocated and nothing saved.
C2_MismatchRejected ==
  (pc # "numeric" /\ LabelCountMismatch) =>
    /\ pc \in {"validate", "err"}
    /\ (pc = "err" => why \in ValidationMessages)
    /\ opens = 0 /\ Opens = {}
    /\ ~canvas.allocated
    /\ saves = 0

\* Column labels alone mismatch and the call has returned its error.
C2_Witness ==
  /\ pc = "err"
  /\ why = "Number of column labels should match the number of columns"
  /\ Len(args.column_labels) = 2 /\ NumImages = 1 /\ args.rows = ToBig(1)
  /\ args.labels = <<>> /\ args.row_labels = <<>>
  /\ opens = 0

\* The padding values the layout is specified with.
SpecLeftPadding ==
  IF \E k \in 1..Len(args.row_labels) : args.row_labels[k] # ""
    THEN left_padding_configured ELSE 0

AnyLabelClass ==
  args.labels # <<>> \/ args.row_labels # <<>> \/ args.column_labels # <<>>

SpecTopBand == IF AnyLabelClass THEN top_padding ELSE 0

\* The canvas dimensions as exact numbers (carry kept).
ExactCanvasWidth ==
  BigAddSmall(BigMulSmall(ToBig(args.images[1].w), cols), SpecLeftPadding)

ExactCanvasHeight ==
  BigAddSmall(BigMulSmall(args.rows, args.images[1].h + SpecTopBand), SpecTopBand)

\* C3: the allocated canvas is image_width * cols + left_padding wide and
\* (image_height + top_band) * rows + top_band high (top_band = 50 with any
\* label class, else 0; left_padding = 40 with a non-empty row label, else 0).
C3_CanvasDimensions ==
  canvas.allocated =>
    /\ canvas.width = ExactCanvasWidth
    /\ canvas.height = ExactCanvasHeight

\* The same dimensions in every run in which no u32 computation overflowed.
CanvasDimensionsWithoutOverflow ==
  (canvas.allocated /\ ~ovf) =>
    /\ canvas.width = ExactCanvasWidth
    /\ canvas.height = ExactCanvasHeight

\* C7: a u32 computation of save_image_plot that leaves the u32 range makes the
\* call return an error: it neither wraps nor panics.
C7_OverflowReported == ovf => pc = "err"

\* The cell origin the layout is specified with.
SpecCellOrigin(i) ==
  <<(i % cols) * args.images[1].w + SpecLeftPadding,
    (i \div cols) * (args.images[1].h + SpecTopBand) + SpecTopBand>>

AllReferenceSize == \A k \in 1..NumImages : args.images[k] = args.images[1]

\* C4: image i is copied with its top-left pixel at
\* (col * cell_width + left_padding, row * cell_height + top_band), top_band
\* being 0 without labels; with all images of the reference size the saved
\* canvas holds every source pixel (x, y) of image i at that origin + (x, y).
C4_CellOrigin ==
  /\ \A k \in Copies : <<events[k].x, events[k].y>> = SpecCellOrigin(events[k].i)
  /\ (pc = "ok" /\ AllReferenceSize /\ ~ovf) =>
       \A i \in 0..(NumImages - 1) :
         \A x \in 0..(args.images[i + 1].w - 1), y \in 0..(args.images[i + 1].h - 1) :
           [at |-> <<SpecCellOrigin(i)[1] + x, SpecCellOrigin(i)[2] + y>>,
            src |-> <<i, x, y>>] \in canvas.px

\* The image rectangle of grid cell (r, c), at the origin the loop uses.
InCell(r, c, p) ==
  /\ p[1] >= c * lay.image_width + lay.left_padding
  /\ p[1] < (c + 1) * lay.image_width + lay.left_padding
  /\ p[2] >= r * lay.row_height + top_padding
  /\ p[2] < r * lay.row_height + top_padding + lay.image_height

InCanvas(p) ==
  /\ p[1] >= 0 /\ BigLess(ToBig(p[1]), canvas.width)
  /\ p[2] >= 0 /\ BigLess(ToBig(p[2]), canvas.height)

\* The cells after the last image in its row.
EmptyCells ==
  {<<(NumImages - 1) \div cols, c>> : c \in (((NumImages - 1) % cols) + 1)..(cols - 1)}

\* C5: a copy writes no pixel outside the cell of its image and none outside
\* the canvas; in the saved canvas the cells without an image hold no image pixel.
C5_Clipping ==
  /\ \A k \in Copies : \A p \in events[k].wrote :
       InCell(events[k].row, events[k].col, p) /\ InCanvas(p)
  /\ pc = "ok" =>
       \A cell \in EmptyCells : \A p \in canvas.px : ~InCell(cell[1], cell[2], p.at)

\* With a label class present the loop uses the specified origin, and a run
\* of reference-size images leaves every source pixel in the saved canvas.
CellOriginWithLabels ==
  AnyLabelClass =>
    /\ \A k \in Copies : <<events[k].x, events[k].y>> = SpecCellOrigin(events[k].i)
    /\ (pc = "ok" /\ AllReferenceSize /\ ~ovf) =>
         \A i \in 0..(NumImages - 1) :
           [at |-> SpecCellOrigin(i), src |-> <<i, 0, 0>>] \in canvas.px

\* Every pixel a copy writes is inside the canvas.
CopiesInsideCanvas ==
  \A k \in Copies : \A p \in events[k].wrote : InCanvas(p)

\* C9: with zero images (and rows >= 1) the call returns an error before any
\* file access or canvas allocation; it does not panic.
C9_ZeroImagesRejected ==
  (pc # "numeric" /\ NumImages = 0 /\ ~BigIsZero(args.rows)) =>
    /\ pc \notin {"panic", "ok"}
    /\ opens = 0 /\ ~canvas.allocated /\ saves = 0

SaveFailed == pc = "err" /\ why = "Failed to save output image"

\* C8: canvas.save is called at most once, and only after the first open and
\* the open and copy of every image succeeded; a failed validation, font load
\* or image open ends the call with an error and without a save.
C8_SaveOnlyAfterAll ==
  /\ saves <= 1
  /\ saves = 1 =>
       /\ NumImages >= 1
       /\ {events[k].i : k \in Copies} = 0..(NumImages - 1)
       /\ opens = NumImages + 1
       /\ \A k \in 1..Len(events) :
            events[k].kind \in {"open", "load_font"} => events[k].ok
  /\ (\E k \in 1..Len(events) :
        events[k].kind \in {"open", "load_font"} /\ ~events[k].ok) =>
       pc = "err" /\ saves = 0
  /\ (pc = "err" /\ ~SaveFailed) => saves = 0

\* The second image fails to open after the first was copied: error, no save.
C8_Witness ==
  /\ pc = "err" /\ why = "Failed to open image" /\ saves = 0
  /\ \E k \in Copies : events[k].i = 0
  /\ \E k \in Opens : events[k].i = 1 /\ ~events[k].ok

\* C10: i32_to_u32(x) is 0 for x < 0 and x otherwise; u32_to_i32(x) is i32::MAX
\* for x > i32::MAX and x otherwise; i32_to_u32(u32_to_i32(x)) = min(x, i32::MAX).
C10_SaturatingConversions ==
  /\ (num.op = "i32_to_u32" /\ num.done) =>
       num.out = (IF num.x < 0 THEN <<0, 0, 0>> ELSE ToBig(num.x))
  /\ (num.op = "u32_to_i32" /\ num.done) =>
       /\ num.out = (IF BigLess(ToBig(I32_MAX), num.u) THEN I32_MAX ELSE BigToInt(num.u))
       /\ num.back = (IF BigLess(ToBig(I32_MAX), num.u) THEN ToBig(I32_MAX) ELSE num.u)

\* u32::MAX converts to i32::MAX and back to i32::MAX as a u32.
C10_Witness ==
  /\ num.op = "u32_to_i32" /\ num.done
  /\ num.u = U32_MAX_BIG /\ num.out = I32_MAX /\ num.back = ToBig(I32_MAX)

\* C6: in the blend of draw_text a coverage of 0 leaves the pixel as it was, a
\* coverage of 1.0 (255) sets it to the glyph colour, and the u8 arithmetic
\* overflows for no coverage and colour.
C6_BlendBoundaries ==
  (num.op = "draw_pixel" /\ num.done /\ num.x >= 0 /\ num.x < num.width) =>
    /\ ~num.out.overflow /\ ~num.out.panic
    /\ (~num.coverage.nan /\ num.coverage.h = 0) => num.out.pixel = num.dst
    /\ (~num.coverage.nan /\ num.coverage.h = 2 * U8_MAX) => num.out.pixel = num.color

\* The blend with the black the program draws with: full coverage gives black.
BlendBlackFullCoverage ==
  (num.op = "draw_pixel" /\ num.done /\ num.out.written
     /\ num.color = <<0, 0, 0>> /\ num.coverage.h >= 2 * U8_MAX) =>
    num.out.pixel = num.color /\ ~num.out.overflow

RowLabelDraws(r) ==
  {k \in 1..Len(events) : events[k].kind = "row_label" /\ events[k].i = r}

RowsSeen ==
  {events[k].i : k \in {m \in 1..Len(events) : events[m].kind = "row_label"}}
    \cup {events[k].row : k \in Copies}

\* The draws of a row label that has text (draw_text of "" draws no glyph).
VisibleRowLabelDraws(r) ==
  IF args.row_labels[r + 1] # "" THEN RowLabelDraws(r) ELSE {}

\* C11: in the image loop the label of a row is drawn exactly once, and no
\* row label is drawn after an image of the same row has been copied.
C11_RowLabelOncePerRow ==
  \A r \in RowsSeen : r < Len(args.row_labels) =>
    /\ Cardinality(VisibleRowLabelDraws(r)) <= 1
    /\ \A k \in VisibleRowLabelDraws(r) : \A c \in Copies :
         events[c].row = r => k < c

\* The label of a row is drawn at most once.
RowLabelDrawnAtMostOnce ==
  \A r \in RowsSeen : Cardinality(RowLabelDraws(r)) <= 1

\* No row label is drawn after a copy into the same row.
RowLabelNeverAfterCopy ==
  \A r \in RowsSeen : \A k \in RowLabelDraws(r) : \A c \in Copies :
    events[c].row = r => k < c

\* What the loop does: with row labels given, one row-label draw per image
\* pass, each before the open and the copy of that pass.
RowLabelDrawnPerImage ==
  (pc \in {"place", "save", "ok"} /\ args.row_labels # <<>>) =>
    /\ \A r \in RowsSeen :
         Cardinality(RowLabelDraws(r)) = Cardinality({c \in Copies : events[c].row = r})
    /\ \A c \in Copies :
         \E k \in RowLabelDraws(events[c].row) :
           /\ k < c
           /\ \A m \in Copies : m < c => m < k

====
